---- MODULE Spec2Model ----
(***************************************************************************)
(* A model of the httptestclient request builder (client.go): the Client   *)
(* fields, its mutators, buildRequest, and Do/DoSimple against an          *)
(* httptest.Server whose http.Client (and its CheckRedirect hook) is       *)
(* shared by every dispatch made on that server.                           *)
(*                                                                         *)
(* Strings that the code inspects (paths) are sequences of characters.     *)
(* A TestingT is either a *testing.T (FailNow stops the goroutine) or a    *)
(* self.FakeTester (FailNow returns).                                      *)
(***************************************************************************)
EXTENDS Integers, Sequences, FiniteSets, TLC

\* ---------------------------------------------------------------- bounds
\* API calls made in one behaviour
MaxCalls == 3
\* redirects followed within one dispatch
MaxHops == 2
\* redirects followed within one dispatch on a server that keeps redirecting
LoopHops == 11
\* calls of the builder in a behaviour that only builds requests
MaxFormCalls == 5
\* characters of a message given to expandStr
MaxMsgLen == 4

\* ---------------------------------------------------------------- values
Clients == {"c1", "c2"}
NoClient == "none"

Testers == {"T", "Fake"}

EmptyStr == << >>
PathRoot == <<"/">>
PathStart == <<"/", "s">>
PathRedirected == <<"/", "r">>
PathOther == <<"/", "o">>
\* the test server's base address, server.URL
ServerURL == <<"http://server">>

\* final status codes the server answers with
Statuses == {200, 304, 404}
\* redirect targets the server answers with
HopTargets == {PathRedirected, PathOther}

\* an error value or a reporter call: format, the integer and the string
\* arguments in order, and the wrapped cause of a %v argument
Msg(format, ints, strs, cause) ==
    [format |-> format, ints |-> ints, strs |-> strs, cause |-> cause]
NoErr == Msg("", << >>, << >>, "")

FmtNoError == "Expected no error, got %v"
FmtMisuse == "misuse of ExpectedStatusCode(%d), use ExpectRedirectTo instead"
FmtOddForm == "Incorrect number of parameters %d items, missed pair"
FmtNilPayload == "payload to send is nil"
FmtRedirectMismatch == "expected to redirect path '%s', actual path '%s'"
FmtRedirectMissing == "expected to redirect path '%s' but no redirection happened"
FmtExpectedSuccess == "expected success, got %d"
FmtExpectedStatus == "expected %d, got %d"
FmtAssertionNotMet == "ASSERTION NOT MET"
FmtUnmarshal == "unmarshal payload failed: %v"
ErrNilBodyJSON == Msg("BodyJson requires non nil value", << >>, << >>, "")

\* *http.Response as Do returns it
NilResp == [isNil |-> TRUE, status |-> 0, path |-> EmptyStr, broken |-> FALSE]
Resp(status, path, broken) ==
    [isNil |-> FALSE, status |-> status, path |-> path, broken |-> broken]

\* what the handler wrote for the request it answered
BodyOf(path) == <<"body of">> \o path
HeaderOf(path) == <<"header of">> \o path

SimpleResponse(status, body, hdr, t) ==
    [Status |-> status, Body |-> body, Header |-> hdr, t |-> t]
EmptySimpleResponse == SimpleResponse(0, EmptyStr, EmptyStr, "nil")

VARIABLES
    t,                  \* Client.t: the kind of TestingT of each client
    method,             \* Client.method
    url,                \* Client.url
    header,             \* Client.header: canonical name -> values (<< >> is absent)
    body,               \* Client.body
    form,               \* Client.form: field name -> values (<< >> is absent)
    context,            \* Client.context
    expectedStatus,     \* Client.expectedStatus
    expectRedirectPath, \* Client.expectRedirectPath
    err,                \* Client.err (NoErr is nil)
    reports,            \* the Errorf calls each client's TestingT received
    goroutine,          \* "running", "halted" once a *testing.T FailNow ran, "panicked"
    built,              \* what the client's last BuildRequest returned
    resp,               \* what the client's last Do returned
    simple,             \* what the client's last DoSimple returned
    calls,              \* API calls started
    lastOp,             \* <<client, operation, outcome>> of the latest call
    cur,                \* the client whose Do is in progress
    curOp,              \* "Do" or "DoSimple"
    phase,              \* where client.Do(req) is: idle, sent, hop, error, responded
    reqPath,            \* URL path of the request the server is handling
    hops,               \* redirects followed in this dispatch
    hopTarget,          \* URL path of the redirect under CheckRedirect
    wasRedirected,      \* the local variable of the Do in progress
    final,              \* the response client.Do returned
    cause,              \* the error client.Do returned ("" is nil)
    hookOwner,          \* the client whose closure is server.Client().CheckRedirect
    hookFresh,          \* the closure's wasRedirected is that of the Do in progress
    expandMsg,          \* the msg given to expandStr
    expandArgs,         \* the args given to expandStr
    expanded            \* what expandStr returned

clientVars == <<t, method, url, header, body, form, context, expectedStatus,
                expectRedirectPath, err, reports, goroutine, built, resp, simple,
                calls, lastOp, cur, curOp, phase, reqPath, hops, hopTarget,
                wasRedirected, final, cause, hookOwner, hookFresh>>
expandVars == <<expandMsg, expandArgs, expanded>>
vars == <<clientVars, expandVars>>

builderVars == <<method, url, header, body, form, context, expectedStatus,
                 expectRedirectPath>>
dispatchVars == <<cur, curOp, phase, reqPath, hops, hopTarget, wasRedirected,
                  final, cause, hookOwner, hookFresh>>
resultVars == <<built, resp, simple>>

\* ---------------------------------------------------------------- helpers
\* net/http canonical header names the model uses
HeaderNames == {"Accept", "User-Agent", "Content-Type", "X-Custom"}
\* textproto.CanonicalMIMEHeaderKey, which http.Header.Set/Add/Get apply
CanonicalHeaderKey(name) ==
    CASE name \in {"accept", "Accept", "ACCEPT"} -> "Accept"
      [] name \in {"user-agent", "User-Agent", "USER-AGENT"} -> "User-Agent"
      [] name \in {"content-type", "Content-Type", "CONTENT-TYPE"} -> "Content-Type"
      [] name \in {"x-custom", "X-Custom", "X-CUSTOM"} -> "X-Custom"

UserAgent == <<"test-http-request">>
ContentTypeApplicationJson == <<"application/json">>
DefaultContentType == ContentTypeApplicationJson
ContentTypeForm == <<"application/x-www-form-urlencoded">>

NoHeaders == [n \in HeaderNames |-> << >>]
\* http.Header.Get: the first value, "" when absent
HeaderGet(h, name) ==
    IF h[CanonicalHeaderKey(name)] = << >> THEN EmptyStr
    ELSE Head(h[CanonicalHeaderKey(name)])
HeaderSet(h, name, value) == [h EXCEPT ![CanonicalHeaderKey(name)] = <<value>>]
HeaderAdd(h, name, value) == [h EXCEPT ![CanonicalHeaderKey(name)] = Append(@, value)]

RECURSIVE HeaderAddAll(_, _, _)
HeaderAddAll(h, name, values) ==
    IF values = << >> THEN h
    ELSE HeaderAddAll(HeaderAdd(h, name, Head(values)), name, Tail(values))

\* io.Reader over the given bytes; NilBody is the nil interface
NilBody == [isNil |-> TRUE, data |-> EmptyStr]
Reader(data) == [isNil |-> FALSE, data |-> data]

\* url.Values: field names in their sort order
FormNames == <<"a", "b">>
NoForm == [n \in {"a", "b"} |-> << >>]
FormLen(f) == Cardinality({n \in DOMAIN f : f[n] # << >>})

\* url.QueryEscape on the values the model uses
QueryEscape(s) ==
    CASE s = "x y" -> "x+y"
      [] s = "x&y" -> "x%26y"
      [] OTHER -> s

RECURSIVE EncodeValues(_, _)
EncodeValues(name, values) ==
    IF values = << >> THEN << >>
    ELSE <<QueryEscape(name) , "=", QueryEscape(Head(values))>>
         \o (IF Tail(values) = << >> THEN << >> ELSE <<"&">>)
         \o EncodeValues(name, Tail(values))

RECURSIVE EncodeFrom(_, _)
EncodeFrom(f, i) ==
    IF i > Len(FormNames) THEN << >>
    ELSE LET here == EncodeValues(FormNames[i], f[FormNames[i]])
             rest == EncodeFrom(f, i + 1)
         IN here \o (IF here # << >> /\ rest # << >> THEN <<"&">> ELSE << >>) \o rest
\* url.Values.Encode: "a=1&a=2&b=3", sorted by field name
Encode(f) == EncodeFrom(f, 1)

\* fmt.Sprintf on a format whose elements are characters or the verb "%s"
RECURSIVE Sprintf(_, _)
Sprintf(format, args) ==
    IF format = << >>
    THEN IF args = << >> THEN << >> ELSE <<"%!(EXTRA)">>
    ELSE IF Head(format) = "%s"
         THEN IF args = << >>
              THEN <<"%!s(MISSING)">> \o Sprintf(Tail(format), args)
              ELSE Head(args) \o Sprintf(Tail(format), Tail(args))
         ELSE <<Head(format)>> \o Sprintf(Tail(format), args)

\* strings.HasPrefix(path, "/")
HasSlashPrefix(path) == path # << >> /\ Head(path) = "/"

\* joinPath that puts a "/" between root and path whatever path starts with
joinPathAlways(root, path) == root \o <<"/">> \o path

joinPath(root, path) ==
    IF ~HasSlashPrefix(path) THEN root \o <<"/">> \o path
    ELSE root \o path

\* req.URL.Path of the request built for base \o path
URLPath(base, urlPath) == SubSeq(urlPath, Len(base) + 1, Len(urlPath))

ValidMethods == {"GET", "POST", "PUT", "PATCH", "DELETE"}
\* the error of http.NewRequestWithContext, "" when there is none
NewRequestError(ctx, m, urlPath) ==
    IF m # "" /\ m \notin ValidMethods THEN "invalid method"
    ELSE IF ctx = "nil" THEN "nil Context"
    ELSE IF \E i \in 1..Len(urlPath) : urlPath[i] \in {"%!s(MISSING)", "%!(EXTRA)"}
         THEN "invalid URL escape"
    ELSE ""

\* *http.Request; its header is the builder's map while aliased holds
NilReq == [isNil |-> TRUE, method |-> "", path |-> EmptyStr, body |-> NilBody,
           aliased |-> FALSE, header |-> NoHeaders]
Req(m, path, b) ==
    [isNil |-> FALSE, method |-> m, path |-> path, body |-> b,
     aliased |-> TRUE, header |-> NoHeaders]
\* a request that never was returned
NoReq == [isNil |-> TRUE, method |-> "none", path |-> EmptyStr, body |-> NilBody,
          aliased |-> FALSE, header |-> NoHeaders]
NoResp == [isNil |-> TRUE, status |-> -1, path |-> EmptyStr, broken |-> FALSE]
NoSimple == SimpleResponse(-1, EmptyStr, EmptyStr, "nil")

\* ---------------------------------------------------------------- reporting
\* whether the TestingT of client o stops the calling goroutine in FailNow
Halts(o) == t[o] = "T"

\* The failNow calls msgs, made in order on client o by the goroutine of
\* client r.  Each sets o.err and calls Errorf and FailNow; a *testing.T
\* stops at the first.  e is o.err after the last statement of the caller.
Report(o, r, msgs, e) ==
    /\ reports' = [reports EXCEPT ![o] = @ \o (IF Halts(o) THEN <<Head(msgs)>> ELSE msgs)]
    /\ err' = [err EXCEPT ![o] = IF Halts(o) THEN Head(msgs) ELSE e]
    /\ goroutine' = [goroutine EXCEPT ![r] = IF Halts(o) THEN "halted" ELSE @]

\* failNow that sets c.err and calls FailNow without Errorf
failNowSilent(o, r, msg) ==
    /\ reports' = reports
    /\ err' = [err EXCEPT ![o] = msg]
    /\ goroutine' = [goroutine EXCEPT ![r] = IF Halts(o) THEN "halted" ELSE @]

failNow(o, r, msg) == Report(o, r, <<msg>>, msg)

\* hasError(err) for a non-nil err: c.err = err, then failNow
hasError(c, e) == failNow(c, c, Msg(FmtNoError, << >>, << >>, e))

Quiet == UNCHANGED <<err, reports, goroutine>>

\* the call op of client c starts; it runs on c's goroutine, outside any Do
Call(c) ==
    /\ cur = NoClient
    /\ goroutine[c] = "running"
    /\ calls' = calls + 1

Returned(c, op) == lastOp' = <<c, op, "returned">>
\* the call returned unless FailNow stopped the goroutine
Failed(c, op) == lastOp' = <<c, op, IF Halts(c) THEN "halted" ELSE "returned">>

\* ---------------------------------------------------------------- mutators
Context(c, ctx) ==
    /\ Call(c)
    /\ context' = [context EXCEPT ![c] = ctx]
    /\ Returned(c, "Context")
    /\ Quiet
    /\ UNCHANGED <<expandVars, t, method, url, header, body, form, expectedStatus,
                   expectRedirectPath, resultVars, dispatchVars>>

\* ExpectedStatusCode without the return after the misuse was reported
ExpectedStatusCodeNoReturn(c, status) ==
    /\ Call(c)
    /\ IF status >= 300 /\ status < 400
       THEN /\ failNow(c, c, Msg(FmtMisuse, <<status>>, << >>, ""))
            /\ Failed(c, "ExpectedStatusCode")
            /\ expectedStatus' = [expectedStatus EXCEPT ![c] =
                                     IF Halts(c) THEN @ ELSE status]
       ELSE /\ expectedStatus' = [expectedStatus EXCEPT ![c] = status]
            /\ Returned(c, "ExpectedStatusCode")
            /\ Quiet
    /\ UNCHANGED <<expandVars, t, method, url, header, body, form, context,
                   expectRedirectPath, resultVars, dispatchVars>>

ExpectedStatusCode(c, status) ==
    /\ Call(c)
    /\ IF status >= 300 /\ status < 400
       THEN /\ failNow(c, c, Msg(FmtMisuse, <<status>>, << >>, ""))
            /\ Failed(c, "ExpectedStatusCode")
            /\ UNCHANGED expectedStatus
       ELSE /\ expectedStatus' = [expectedStatus EXCEPT ![c] = status]
            /\ Returned(c, "ExpectedStatusCode")
            /\ Quiet
    /\ UNCHANGED <<expandVars, t, method, url, header, body, form, context,
                   expectRedirectPath, resultVars, dispatchVars>>

ExpectRedirectTo(c, path) ==
    /\ Call(c)
    /\ expectRedirectPath' = [expectRedirectPath EXCEPT ![c] = path]
    /\ Returned(c, "ExpectRedirectTo")
    /\ Quiet
    /\ UNCHANGED <<expandVars, t, method, url, header, body, form, context,
                   expectedStatus, resultVars, dispatchVars>>

Method(c, m) ==
    /\ Call(c)
    /\ method' = [method EXCEPT ![c] = m]
    /\ Returned(c, "Method")
    /\ Quiet
    /\ UNCHANGED <<expandVars, t, url, header, body, form, context, expectedStatus,
                   expectRedirectPath, resultVars, dispatchVars>>

URL(c, u, args) ==
    /\ Call(c)
    /\ url' = [url EXCEPT ![c] = Sprintf(u, args)]
    /\ Returned(c, "URL")
    /\ Quiet
    /\ UNCHANGED <<expandVars, t, method, header, body, form, context, expectedStatus,
                   expectRedirectPath, resultVars, dispatchVars>>

\* the verb shorthand without its c.Method(verb)
VerbKeepsMethod(c, verb, u, args) ==
    /\ Call(c)
    /\ url' = [url EXCEPT ![c] = Sprintf(u, args)]
    /\ Returned(c, verb)
    /\ Quiet
    /\ UNCHANGED <<expandVars, t, method, header, body, form, context, expectedStatus,
                   expectRedirectPath, resultVars, dispatchVars>>

\* Post, Put, Patch, Get, Delete: c.Method(verb).URL(url, args...)
Verb(c, verb, u, args) ==
    /\ Call(c)
    /\ method' = [method EXCEPT ![c] = verb]
    /\ url' = [url EXCEPT ![c] = Sprintf(u, args)]
    /\ Returned(c, verb)
    /\ Quiet
    /\ UNCHANGED <<expandVars, t, header, body, form, context, expectedStatus,
                   expectRedirectPath, resultVars, dispatchVars>>

\* Header that adds its first value with Header.Add as well
HeaderAddsOnly(c, name, value, moreValues) ==
    /\ Call(c)
    /\ header' = [header EXCEPT ![c] =
                     HeaderAddAll(HeaderAdd(@, name, value), name, moreValues)]
    /\ Returned(c, "Header")
    /\ Quiet
    /\ UNCHANGED <<expandVars, t, method, url, body, form, context, expectedStatus,
                   expectRedirectPath, resultVars, dispatchVars>>

Header(c, name, value, moreValues) ==
    /\ Call(c)
    /\ header' = [header EXCEPT ![c] =
                     HeaderAddAll(HeaderSet(@, name, value), name, moreValues)]
    /\ Returned(c, "Header")
    /\ Quiet
    /\ UNCHANGED <<expandVars, t, method, url, body, form, context, expectedStatus,
                   expectRedirectPath, resultVars, dispatchVars>>

\* AddPairs with url.Values.Set in place of Add: a repeated name overwrites
RECURSIVE SetPairs(_, _)
SetPairs(f, args) ==
    IF Len(args) < 2 THEN f
    ELSE SetPairs([f EXCEPT ![args[1]] = <<args[2]>>],
                  SubSeq(args, 3, Len(args)))

\* c.form.Add for every complete pair of args
RECURSIVE AddPairs(_, _)
AddPairs(f, args) ==
    IF Len(args) < 2 THEN f
    ELSE AddPairs([f EXCEPT ![args[1]] = Append(@, args[2])],
                  SubSeq(args, 3, Len(args)))

FormData(c, args) ==
    /\ Call(c)
    /\ IF Len(args) % 2 # 0
       THEN \* failNow; when FailNow returns the loop runs on and args[i+1]
            \* is read past the end of args: a run-time panic
            /\ reports' = [reports EXCEPT ![c] =
                              Append(@, Msg(FmtOddForm, <<Len(args)>>, << >>, ""))]
            /\ err' = [err EXCEPT ![c] = Msg(FmtOddForm, <<Len(args)>>, << >>, "")]
            /\ goroutine' = [goroutine EXCEPT ![c] =
                                IF Halts(c) THEN "halted" ELSE "panicked"]
            /\ form' = [form EXCEPT ![c] = IF Halts(c) THEN @ ELSE AddPairs(@, args)]
            /\ lastOp' = <<c, "FormData", IF Halts(c) THEN "halted" ELSE "panicked">>
            /\ UNCHANGED body
       ELSE /\ form' = [form EXCEPT ![c] = AddPairs(@, args)]
            /\ body' = [body EXCEPT ![c] = Reader(Encode(AddPairs(form[c], args)))]
            /\ Returned(c, "FormData")
            /\ Quiet
    /\ UNCHANGED <<expandVars, t, method, url, header, context, expectedStatus,
                   expectRedirectPath, resultVars, dispatchVars>>

\* ClearHeaders that resets the headers to those New seeds
ClearHeadersToDefaults(c) ==
    /\ Call(c)
    /\ header' = [header EXCEPT ![c] =
                     [NoHeaders EXCEPT !["Accept"] = <<ContentTypeApplicationJson>>,
                                       !["User-Agent"] = <<UserAgent>>]]
    /\ built' = [built EXCEPT ![c] =
                    IF @.aliased THEN [@ EXCEPT !.aliased = FALSE, !.header = header[c]]
                    ELSE @]
    /\ Returned(c, "ClearHeaders")
    /\ Quiet
    /\ UNCHANGED <<expandVars, t, method, url, body, form, context, expectedStatus,
                   expectRedirectPath, resp, simple, dispatchVars>>

ClearHeaders(c) ==
    /\ Call(c)
    /\ header' = [header EXCEPT ![c] = NoHeaders]
       \* a request handed out before keeps the map that was replaced
    /\ built' = [built EXCEPT ![c] =
                    IF @.aliased THEN [@ EXCEPT !.aliased = FALSE, !.header = header[c]]
                    ELSE @]
    /\ Returned(c, "ClearHeaders")
    /\ Quiet
    /\ UNCHANGED <<expandVars, t, method, url, body, form, context, expectedStatus,
                   expectRedirectPath, resp, simple, dispatchVars>>

\* BodyBytes and BodyString
BodyBytes(c, data) ==
    /\ Call(c)
    /\ body' = [body EXCEPT ![c] = Reader(data)]
    /\ Returned(c, "BodyBytes")
    /\ Quiet
    /\ UNCHANGED <<expandVars, t, method, url, header, form, context, expectedStatus,
                   expectRedirectPath, resultVars, dispatchVars>>

\* json.Marshal of the payloads the model uses; "chan" cannot be marshalled
Marshal(payload) == <<"json of ", payload>>

\* BodyJSON without the test for a nil payload: nil is marshalled as well
BodyJSONMarshalsNil(c, payload) ==
    /\ Call(c)
    /\ IF payload = "chan"
       THEN /\ hasError(c, "json: unsupported type")
            /\ Failed(c, "BodyJSON")
            /\ UNCHANGED body
       ELSE /\ body' = [body EXCEPT ![c] = Reader(Marshal(payload))]
            /\ Returned(c, "BodyJSON")
            /\ Quiet
    /\ UNCHANGED <<expandVars, t, method, url, header, form, context, expectedStatus,
                   expectRedirectPath, resultVars, dispatchVars>>

BodyJSON(c, payload) ==
    /\ Call(c)
    /\ IF payload = "nil"
       THEN /\ Report(c, c, <<Msg(FmtNilPayload, << >>, << >>, "")>>, ErrNilBodyJSON)
            /\ Failed(c, "BodyJSON")
            /\ UNCHANGED body
       ELSE IF payload = "chan"
       THEN /\ hasError(c, "json: unsupported type")
            /\ Failed(c, "BodyJSON")
            /\ UNCHANGED body
       ELSE /\ body' = [body EXCEPT ![c] = Reader(Marshal(payload))]
            /\ Returned(c, "BodyJSON")
            /\ Quiet
    /\ UNCHANGED <<expandVars, t, method, url, header, form, context, expectedStatus,
                   expectRedirectPath, resultVars, dispatchVars>>

\* ---------------------------------------------------------------- build
\* buildRequest without the test of c.err
buildRequestAnyway(c, baseURL) ==
    LET m == IF FormLen(form[c]) > 0 /\ method[c] = "" THEN "POST" ELSE method[c]
        urlPath == joinPath(baseURL, url[c])
        e == NewRequestError(context[c], m, urlPath)
        h == IF FormLen(form[c]) > 0
             THEN HeaderSet(header[c], "Content-Type", ContentTypeForm)
             ELSE IF ~body[c].isNil /\ HeaderGet(header[c], "Content-Type") = EmptyStr
                  THEN HeaderSet(header[c], "Content-Type", DefaultContentType)
                  ELSE header[c]
    IN  IF e # ""
        THEN [req |-> NilReq, error |-> e, method |-> m, header |-> header[c]]
        ELSE [req |-> Req(IF m = "" THEN "GET" ELSE m, URLPath(baseURL, urlPath), body[c]),
              error |-> "", method |-> m, header |-> h]

\* buildRequest with the two Content-Type branches in the other order
buildRequestBodyFirst(c, baseURL) ==
    LET m == IF FormLen(form[c]) > 0 /\ method[c] = "" THEN "POST" ELSE method[c]
        urlPath == joinPath(baseURL, url[c])
        e == NewRequestError(context[c], m, urlPath)
        h == IF ~body[c].isNil /\ HeaderGet(header[c], "Content-Type") = EmptyStr
             THEN HeaderSet(header[c], "Content-Type", DefaultContentType)
             ELSE IF FormLen(form[c]) > 0
                  THEN HeaderSet(header[c], "Content-Type", ContentTypeForm)
                  ELSE header[c]
    IN  IF err[c] # NoErr
        THEN [req |-> NilReq, error |-> "", method |-> method[c], header |-> header[c]]
        ELSE IF e # ""
        THEN [req |-> NilReq, error |-> e, method |-> m, header |-> header[c]]
        ELSE [req |-> Req(IF m = "" THEN "GET" ELSE m, URLPath(baseURL, urlPath), body[c]),
              error |-> "", method |-> m, header |-> h]

\* buildRequest that gives every body the default Content-Type
buildRequestOverride(c, baseURL) ==
    LET m == IF FormLen(form[c]) > 0 /\ method[c] = "" THEN "POST" ELSE method[c]
        urlPath == joinPath(baseURL, url[c])
        e == NewRequestError(context[c], m, urlPath)
        h == IF FormLen(form[c]) > 0
             THEN HeaderSet(header[c], "Content-Type", ContentTypeForm)
             ELSE IF ~body[c].isNil
                  THEN HeaderSet(header[c], "Content-Type", DefaultContentType)
                  ELSE header[c]
    IN  IF err[c] # NoErr
        THEN [req |-> NilReq, error |-> "", method |-> method[c], header |-> header[c]]
        ELSE IF e # ""
        THEN [req |-> NilReq, error |-> e, method |-> m, header |-> header[c]]
        ELSE [req |-> Req(IF m = "" THEN "GET" ELSE m, URLPath(baseURL, urlPath), body[c]),
              error |-> "", method |-> m, header |-> h]

\* buildRequest(baseURL): the request, the error of NewRequestWithContext,
\* and c.method and c.header afterwards (req.Header is c.header itself)
buildRequest(c, baseURL) ==
    LET m == IF FormLen(form[c]) > 0 /\ method[c] = "" THEN "POST" ELSE method[c]
        urlPath == joinPath(baseURL, url[c])
        e == NewRequestError(context[c], m, urlPath)
        h == IF FormLen(form[c]) > 0
             THEN HeaderSet(header[c], "Content-Type", ContentTypeForm)
             ELSE IF ~body[c].isNil /\ HeaderGet(header[c], "Content-Type") = EmptyStr
                  THEN HeaderSet(header[c], "Content-Type", DefaultContentType)
                  ELSE header[c]
    IN  IF err[c] # NoErr
        THEN [req |-> NilReq, error |-> "", method |-> method[c], header |-> header[c]]
        ELSE IF e # ""
        THEN [req |-> NilReq, error |-> e, method |-> m, header |-> header[c]]
        ELSE [req |-> Req(IF m = "" THEN "GET" ELSE m, URLPath(baseURL, urlPath), body[c]),
              error |-> "", method |-> m, header |-> h]

BuildRequest(c) ==
    LET b == buildRequest(c, EmptyStr) IN
    /\ Call(c)
    /\ method' = [method EXCEPT ![c] = b.method]
    /\ header' = [header EXCEPT ![c] = b.header]
    /\ IF b.error # ""
       THEN /\ hasError(c, b.error)
            /\ Failed(c, "BuildRequest")
            /\ built' = [built EXCEPT ![c] = IF Halts(c) THEN @ ELSE NilReq]
       ELSE /\ Returned(c, "BuildRequest")
            /\ built' = [built EXCEPT ![c] = b.req]
            /\ Quiet
    /\ UNCHANGED <<expandVars, t, url, body, form, context, expectedStatus,
                   expectRedirectPath, resp, simple, dispatchVars>>

\* req.Header of the request BuildRequest returned to client c
RequestHeader(c) == IF built[c].aliased THEN header[c] ELSE built[c].header

\* ---------------------------------------------------------------- dispatch
Idle ==
    /\ cur' = NoClient
    /\ curOp' = ""
    /\ phase' = "idle"
    /\ reqPath' = EmptyStr
    /\ hops' = 0
    /\ hopTarget' = EmptyStr
    /\ wasRedirected' = FALSE
    /\ final' = NilResp
    /\ cause' = ""
    /\ hookFresh' = FALSE

\* Do up to the call of client.Do(req): build the request, install the
\* CheckRedirect closure if the server's client has none, send the request
DoCall(c, op) ==
    LET b == buildRequest(c, ServerURL) IN
    /\ Call(c)
    /\ method' = [method EXCEPT ![c] = b.method]
    /\ header' = [header EXCEPT ![c] = b.header]
    /\ IF b.req.isNil
       THEN /\ IF b.error # "" THEN hasError(c, b.error) ELSE Quiet
            /\ IF b.error # "" /\ Halts(c)
               THEN /\ lastOp' = <<c, op, "halted">>
                    /\ UNCHANGED <<resp, simple>>
               ELSE /\ lastOp' = <<c, op, "returned">>
                    /\ resp' = [resp EXCEPT ![c] = NilResp]
                    /\ simple' = [simple EXCEPT ![c] =
                                     IF op = "DoSimple" THEN EmptySimpleResponse ELSE @]
            /\ UNCHANGED dispatchVars
       ELSE /\ Quiet
            /\ cur' = c
            /\ curOp' = op
            /\ wasRedirected' = FALSE
            /\ hops' = 0
            /\ hopTarget' = EmptyStr
            /\ final' = NilResp
            /\ hookOwner' = IF hookOwner = NoClient THEN c ELSE hookOwner
            /\ hookFresh' = (hookOwner = NoClient)
            /\ IF context[c] = "canceled"
               THEN /\ phase' = "error"
                    /\ cause' = "context canceled"
                    /\ reqPath' = EmptyStr
               ELSE /\ phase' = "sent"
                    /\ cause' = ""
                    /\ reqPath' = b.req.path
            /\ lastOp' = <<c, op, "running">>
            /\ UNCHANGED <<resp, simple>>
    /\ UNCHANGED <<expandVars, t, url, body, form, context, expectedStatus,
                   expectRedirectPath, built>>

Do(c) == DoCall(c, "Do")
DoSimple(c) == DoCall(c, "DoSimple")

\* the handler answers the request with a final status; broken: the body
\* cannot be read to its end
ServerRespond(status, broken) ==
    /\ phase = "sent"
    /\ phase' = "responded"
    /\ final' = Resp(status, reqPath, broken)
    /\ UNCHANGED <<expandVars, t, builderVars, err, reports, goroutine, resultVars, calls,
                   lastOp, cur, curOp, reqPath, hops, hopTarget, wasRedirected,
                   cause, hookOwner, hookFresh>>

\* the handler answers the request with a redirect to target
ServerRedirect(target, limit) ==
    /\ phase = "sent"
    /\ hops < limit
    /\ phase' = "hop"
    /\ hopTarget' = target
    /\ UNCHANGED <<expandVars, t, builderVars, err, reports, goroutine, resultVars, calls,
                   lastOp, cur, curOp, reqPath, hops, wasRedirected, final,
                   cause, hookOwner, hookFresh>>

\* the exchange fails below HTTP
TransportFailure ==
    /\ phase = "sent"
    /\ phase' = "error"
    /\ cause' = "connection reset"
    /\ UNCHANGED <<expandVars, t, builderVars, err, reports, goroutine, resultVars, calls,
                   lastOp, cur, curOp, reqPath, hops, hopTarget, wasRedirected,
                   final, hookOwner, hookFresh>>

\* whether the installed closure lets the hop to path pass
HopMatches(o, path) == path = expectRedirectPath[o]

\* the closure installed as client.CheckRedirect runs for the hop: c and
\* wasRedirected are those of the Do that installed it
CheckRedirect ==
    /\ phase = "hop"
    /\ IF ~HopMatches(hookOwner, hopTarget)
       THEN /\ failNow(hookOwner, cur,
                       Msg(FmtRedirectMismatch, << >>,
                           <<expectRedirectPath[hookOwner], hopTarget>>, ""))
            /\ IF Halts(hookOwner)
               THEN /\ Idle
                    /\ lastOp' = <<cur, curOp, "halted">>
               ELSE /\ phase' = "error"
                    /\ cause' = "redirect rejected"
                    /\ UNCHANGED <<cur, curOp, reqPath, hops, hopTarget,
                                   wasRedirected, final, hookFresh, lastOp>>
       ELSE /\ wasRedirected' = IF hookFresh THEN TRUE ELSE wasRedirected
            /\ phase' = "sent"
            /\ reqPath' = hopTarget
            /\ hops' = hops + 1
            /\ hopTarget' = EmptyStr
            /\ Quiet
            /\ UNCHANGED <<cur, curOp, final, cause, hookFresh, lastOp>>
    /\ UNCHANGED <<expandVars, t, builderVars, resultVars, calls, hookOwner>>

\* DoFailure with the success range cut at 300
DoFailureBelow300(c) ==
    IF cause # ""
    THEN Msg(FmtNoError, << >>, << >>, cause)
    ELSE IF expectRedirectPath[c] # EmptyStr /\ ~wasRedirected
    THEN Msg(FmtRedirectMissing, << >>, <<expectRedirectPath[c]>>, "")
    ELSE IF expectedStatus[c] = 0 /\ final.status >= 300
    THEN Msg(FmtExpectedSuccess, <<final.status>>, << >>, "")
    ELSE IF expectedStatus[c] > 0 /\ expectedStatus[c] # final.status
    THEN Msg(FmtExpectedStatus, <<expectedStatus[c], final.status>>, << >>, "")
    ELSE NoErr

\* DoFailure that compares an expected status only when it is a success code
DoFailureSuccessOnly(c) ==
    IF cause # ""
    THEN Msg(FmtNoError, << >>, << >>, cause)
    ELSE IF expectRedirectPath[c] # EmptyStr /\ ~wasRedirected
    THEN Msg(FmtRedirectMissing, << >>, <<expectRedirectPath[c]>>, "")
    ELSE IF expectedStatus[c] = 0 /\ final.status >= 400
    THEN Msg(FmtExpectedSuccess, <<final.status>>, << >>, "")
    ELSE IF expectedStatus[c] > 0 /\ expectedStatus[c] < 400
            /\ expectedStatus[c] # final.status
    THEN Msg(FmtExpectedStatus, <<expectedStatus[c], final.status>>, << >>, "")
    ELSE NoErr

\* DoFailure that checks the status before the missing redirect
DoFailureStatusFirst(c) ==
    IF cause # ""
    THEN Msg(FmtNoError, << >>, << >>, cause)
    ELSE IF expectedStatus[c] = 0 /\ final.status >= 400
    THEN Msg(FmtExpectedSuccess, <<final.status>>, << >>, "")
    ELSE IF expectedStatus[c] > 0 /\ expectedStatus[c] # final.status
    THEN Msg(FmtExpectedStatus, <<expectedStatus[c], final.status>>, << >>, "")
    ELSE IF expectRedirectPath[c] # EmptyStr /\ ~wasRedirected
    THEN Msg(FmtRedirectMissing, << >>, <<expectRedirectPath[c]>>, "")
    ELSE NoErr

\* DoFailure that looks at the transport error after the missing redirect
DoFailureRedirectFirst(c) ==
    IF expectRedirectPath[c] # EmptyStr /\ ~wasRedirected
    THEN Msg(FmtRedirectMissing, << >>, <<expectRedirectPath[c]>>, "")
    ELSE IF cause # ""
    THEN Msg(FmtNoError, << >>, << >>, cause)
    ELSE IF expectedStatus[c] = 0 /\ final.status >= 400
    THEN Msg(FmtExpectedSuccess, <<final.status>>, << >>, "")
    ELSE IF expectedStatus[c] > 0 /\ expectedStatus[c] # final.status
    THEN Msg(FmtExpectedStatus, <<expectedStatus[c], final.status>>, << >>, "")
    ELSE NoErr

\* the first check of Do that fails once client.Do has returned, NoErr if none
DoFailure(c) ==
    IF cause # ""
    THEN Msg(FmtNoError, << >>, << >>, cause)
    ELSE IF expectRedirectPath[c] # EmptyStr /\ ~wasRedirected
    THEN Msg(FmtRedirectMissing, << >>, <<expectRedirectPath[c]>>, "")
    ELSE IF expectedStatus[c] = 0 /\ final.status >= 400
    THEN Msg(FmtExpectedSuccess, <<final.status>>, << >>, "")
    ELSE IF expectedStatus[c] > 0 /\ expectedStatus[c] # final.status
    THEN Msg(FmtExpectedStatus, <<expectedStatus[c], final.status>>, << >>, "")
    ELSE NoErr

\* self-test: the TestingT is a *self.FakeTester
\* SelfTest that takes every TestingT for a *self.FakeTester
SelfTestAny(c) == t[c] \in Testers

SelfTest(c) == t[c] = "Fake"

\* ReadSimple that drops the response's headers
ReadSimpleNoHeader(c, r) ==
    SimpleResponse(r.status, BodyOf(r.path), EmptyStr, t[c])

\* DoSimple's read of the response Do returned
ReadSimple(c, r) ==
    SimpleResponse(r.status, BodyOf(r.path), HeaderOf(r.path), t[c])

\* Do from the return of client.Do(req) on, and the rest of DoSimple
DoReturn ==
    LET c == cur
        fail == DoFailure(c)
        readFails == curOp = "DoSimple" /\ final.broken
        readErr == Msg(FmtNoError, << >>, << >>, "unexpected EOF")
        assertion == Msg(FmtAssertionNotMet, << >>, << >>, "")
    IN
    /\ phase \in {"error", "responded"}
    /\ IF fail # NoErr
       THEN /\ failNow(c, c, fail)
            /\ IF Halts(c)
               THEN /\ lastOp' = <<c, curOp, "halted">>
                    /\ UNCHANGED <<resp, simple>>
               ELSE /\ lastOp' = <<c, curOp, "returned">>
                    /\ resp' = [resp EXCEPT ![c] = NilResp]
                    /\ simple' = [simple EXCEPT ![c] =
                                     IF curOp = "DoSimple" THEN EmptySimpleResponse ELSE @]
       ELSE /\ resp' = [resp EXCEPT ![c] = final]
            /\ IF SelfTest(c)
               THEN Report(c, c, <<assertion>> \o (IF readFails THEN <<readErr>> ELSE << >>),
                           IF readFails THEN readErr ELSE assertion)
               ELSE IF readFails THEN hasError(c, "unexpected EOF") ELSE Quiet
            /\ IF readFails /\ Halts(c)
               THEN /\ lastOp' = <<c, curOp, "halted">>
                    /\ UNCHANGED simple
               ELSE /\ lastOp' = <<c, curOp, "returned">>
                    /\ simple' = [simple EXCEPT ![c] =
                                     IF curOp # "DoSimple" THEN @
                                     ELSE IF readFails THEN EmptySimpleResponse
                                     ELSE ReadSimple(c, final)]
    /\ Idle
    /\ UNCHANGED <<expandVars, t, builderVars, built, calls, hookOwner>>

\* ---------------------------------------------------------------- SimpleResponse
\* what BodyJSON is asked to decode the body into: a value whose type the
\* body fits, or one it does not fit
DecodeTargets == {"fits", "mismatch"}

\* the error of json.Unmarshal(body, target), "" when there is none; the
\* empty body is no JSON text
Unmarshal(b, target) ==
    IF b = EmptyStr THEN "unexpected end of JSON input"
    ELSE IF target = "mismatch" THEN "json: cannot unmarshal"
    ELSE ""

\* r.BodyJSON(target) on the SimpleResponse r the last DoSimple of client c
\* returned; r.t is the nil interface in SimpleResponse{}, and a method
\* call on it is a run-time panic
SimpleBodyJSON(c, target) ==
    LET r == simple[c]
        e == Unmarshal(r.Body, target)
    IN
    /\ Call(c)
    /\ r # NoSimple
    /\ IF e = ""
       THEN /\ Quiet
            /\ Returned(c, "SimpleResponse.BodyJSON")
       ELSE IF r.t = "nil"
       THEN /\ goroutine' = [goroutine EXCEPT ![c] = "panicked"]
            /\ lastOp' = <<c, "SimpleResponse.BodyJSON", "panicked">>
            /\ UNCHANGED <<err, reports>>
       ELSE /\ reports' = [reports EXCEPT ![c] =
                              Append(@, Msg(FmtUnmarshal, << >>, << >>, e))]
            /\ goroutine' = [goroutine EXCEPT ![c] =
                                IF r.t = "T" THEN "halted" ELSE @]
            /\ lastOp' = <<c, "SimpleResponse.BodyJSON",
                           IF r.t = "T" THEN "halted" ELSE "returned">>
            /\ UNCHANGED err
    /\ UNCHANGED <<expandVars, t, builderVars, resultVars, dispatchVars>>

\* ---------------------------------------------------------------- expandStr
\* a string is the sequence of its characters; Nines stands for a run of
\* twenty "9", a number no int holds
Nines == "99999999999999999999"
\* the characters the messages are made of
Alphabet == {"$", "0", "1", "k", " ", Nines}
\* the class [a-zA-Z0-9_] of rxDollarEnv
KeyChars == {"0", "1", "k", Nines}
DigitChars == <<"0", "1", "2", "3", "4", "5", "6", "7", "8", "9">>
DigitValue(ch) == CHOOSE d \in 0..9 : DigitChars[d + 1] = ch

\* the values given as args: an int, a string, a fmt.Stringer (s is what
\* its String method returns), a map[string]any or a map[string]string
\* (m maps each key to its value)
NoMap == << >>
IntArg(n) == [kind |-> "int", n |-> n, s |-> EmptyStr, m |-> NoMap]
Str(s) == [kind |-> "string", n |-> 0, s |-> s, m |-> NoMap]
Stringer(s) == [kind |-> "stringer", n |-> 0, s |-> s, m |-> NoMap]
MapAny(m) == [kind |-> "map[string]any", n |-> 0, s |-> EmptyStr, m |-> m]
MapString(m) == [kind |-> "map[string]string", n |-> 0, s |-> EmptyStr, m |-> m]

\* the keys of the maps, in the order fmt prints them
MapKeys == << <<"1">>, <<"k">> >>

\* strconv.Itoa and the verb %d: the decimal digits of n >= 0
RECURSIVE Decimal(_)
Decimal(n) ==
    IF n < 10 THEN <<DigitChars[n + 1]>>
    ELSE Decimal(n \div 10) \o <<DigitChars[(n % 10) + 1]>>

\* strconv.Atoi: err is nil for a run of digits an int holds
RECURSIVE AtoiValue(_)
AtoiValue(s) ==
    IF s = << >> THEN 0
    ELSE 10 * AtoiValue(SubSeq(s, 1, Len(s) - 1)) + DigitValue(s[Len(s)])

Atoi(s) ==
    IF /\ s # << >>
       /\ \A i \in 1..Len(s) : s[i] \in {"0", "1"}
    THEN [i |-> AtoiValue(s), err |-> FALSE]
    ELSE [i |-> 0, err |-> TRUE]

\* fmt.Sprintf("%v", v)
RECURSIVE Format(_)
RECURSIVE FormatEntries(_, _, _)
FormatEntries(m, k, first) ==
    IF k > Len(MapKeys) THEN << >>
    ELSE IF MapKeys[k] \notin DOMAIN m THEN FormatEntries(m, k + 1, first)
    ELSE (IF first THEN << >> ELSE <<" ">>)
         \o MapKeys[k] \o <<":">> \o Format(m[MapKeys[k]])
         \o FormatEntries(m, k + 1, FALSE)

Format(v) ==
    CASE v.kind = "int" -> Decimal(v.n)
      [] v.kind = "string" -> v.s
      [] v.kind = "stringer" -> v.s
      [] OTHER -> <<"map[">> \o FormatEntries(v.m, 1, TRUE) \o <<"]">>

\* the closure one-based: $1 is the first argument
replOneBased(name, args) ==
    LET a == Atoi(name) IN
    IF ~a.err
    THEN IF a.i < 1 \/ a.i > Len(args)
         THEN <<"[bad_index:$">> \o Decimal(a.i) \o <<"]">>
         ELSE Format(args[a.i])
    ELSE IF /\ Len(args) = 1
            /\ args[1].kind = "map[string]any"
            /\ name \in DOMAIN args[1].m
         THEN Format(args[1].m[name])
         ELSE <<"[no_key:$">> \o name \o <<"]">>

\* the closure rendering a missing key as the empty string
replMissingEmpty(name, args) ==
    LET a == Atoi(name) IN
    IF ~a.err
    THEN IF a.i < 0 \/ a.i >= Len(args)
         THEN <<"[bad_index:$">> \o Decimal(a.i) \o <<"]">>
         ELSE Format(args[a.i + 1])
    ELSE IF Len(args) = 1 /\ args[1].kind = "map[string]any"
         THEN IF name \in DOMAIN args[1].m
              THEN Format(args[1].m[name])
              ELSE EmptyStr
         ELSE <<"[no_key:$">> \o name \o <<"]">>

\* the closure looking the name up in a single map before reading it as
\* an index
replMapFirst(name, args) ==
    LET a == Atoi(name) IN
    IF /\ Len(args) = 1
       /\ args[1].kind = "map[string]any"
       /\ name \in DOMAIN args[1].m
    THEN Format(args[1].m[name])
    ELSE IF ~a.err
    THEN IF a.i < 0 \/ a.i >= Len(args)
         THEN <<"[bad_index:$">> \o Decimal(a.i) \o <<"]">>
         ELSE Format(args[a.i + 1])
    ELSE <<"[no_key:$">> \o name \o <<"]">>

\* the closure expandStr hands to replaceAllStringSubMatchFunc; name is
\* values[1], the Key group of the match (args[a.i + 1] is Go's args[i])
repl(name, args) ==
    LET a == Atoi(name) IN
    IF ~a.err
    THEN IF a.i < 0 \/ a.i >= Len(args)
         THEN <<"[bad_index:$">> \o Decimal(a.i) \o <<"]">>
         ELSE Format(args[a.i + 1])
    ELSE IF /\ Len(args) = 1
            /\ args[1].kind = "map[string]any"
            /\ name \in DOMAIN args[1].m
         THEN Format(args[1].m[name])
         ELSE <<"[no_key:$">> \o name \o <<"]">>

\* the last position of the longest run of key characters that starts at
\* i (i - 1 when there is none): the + of rxDollarEnv is greedy
RECURSIVE MatchEnd(_, _)
MatchEnd(str, i) ==
    IF i <= Len(str) /\ str[i] \in KeyChars
    THEN MatchEnd(str, i + 1)
    ELSE i - 1

\* rxDollarEnv.FindAllSubmatchIndex: the matches <<first, last>> from
\* position i on, leftmost first, none overlapping
RECURSIVE FindAllSubmatchIndex(_, _)
FindAllSubmatchIndex(str, i) ==
    IF i > Len(str) THEN << >>
    ELSE IF str[i] = "$" /\ MatchEnd(str, i + 1) > i
         THEN <<<<i, MatchEnd(str, i + 1)>>>>
              \o FindAllSubmatchIndex(str, MatchEnd(str, i + 1) + 1)
         ELSE FindAllSubmatchIndex(str, i + 1)

\* the loop of replaceAllStringSubMatchFunc from match k on; lastIndex is
\* the position after the previous match
RECURSIVE ReplaceLoop(_, _, _, _, _)
ReplaceLoop(str, args, matches, k, lastIndex) ==
    IF k > Len(matches) THEN SubSeq(str, lastIndex, Len(str))
    ELSE SubSeq(str, lastIndex, matches[k][1] - 1)
         \o repl(SubSeq(str, matches[k][1] + 1, matches[k][2]), args)
         \o ReplaceLoop(str, args, matches, k + 1, matches[k][2] + 1)

\* the loop returning result without the text after the last match
RECURSIVE ReplaceLoopNoTail(_, _, _, _, _)
ReplaceLoopNoTail(str, args, matches, k, lastIndex) ==
    IF k > Len(matches) THEN << >>
    ELSE SubSeq(str, lastIndex, matches[k][1] - 1)
         \o repl(SubSeq(str, matches[k][1] + 1, matches[k][2]), args)
         \o ReplaceLoopNoTail(str, args, matches, k + 1, matches[k][2] + 1)

replaceAllNoTail(str, args) ==
    ReplaceLoopNoTail(str, args, FindAllSubmatchIndex(str, 1), 1, 1)

replaceAllStringSubMatchFunc(str, args) ==
    ReplaceLoop(str, args, FindAllSubmatchIndex(str, 1), 1, 1)

expandStr(msg, args) == replaceAllStringSubMatchFunc(msg, args)

\* expandStr was not called
NotExpanded == <<"(not called)">>

\* expandStr(expandMsg, expandArgs...)
ExpandStr ==
    /\ expanded = NotExpanded
    /\ expanded' = expandStr(expandMsg, expandArgs)
    /\ UNCHANGED <<clientVars, expandMsg, expandArgs>>

\* ---------------------------------------------------------------- New
\* New that seeds the default Content-Type as a third header
InitWithContentType ==
    /\ t \in [Clients -> Testers]
    /\ method = [c \in Clients |-> "GET"]
    /\ url = [c \in Clients |-> PathRoot]
    /\ header = [c \in Clients |->
                    [NoHeaders EXCEPT !["Accept"] = <<ContentTypeApplicationJson>>,
                                      !["User-Agent"] = <<UserAgent>>,
                                      !["Content-Type"] = <<DefaultContentType>>]]
    /\ body = [c \in Clients |-> NilBody]
    /\ form = [c \in Clients |-> NoForm]
    /\ context = [c \in Clients |-> "background"]
    /\ expectedStatus = [c \in Clients |-> 0]
    /\ expectRedirectPath = [c \in Clients |-> EmptyStr]
    /\ err = [c \in Clients |-> NoErr]
    /\ reports = [c \in Clients |-> << >>]
    /\ goroutine = [c \in Clients |-> "running"]
    /\ built = [c \in Clients |-> NoReq]
    /\ resp = [c \in Clients |-> NoResp]
    /\ simple = [c \in Clients |-> NoSimple]
    /\ calls = 0
    /\ lastOp = <<NoClient, "", "">>
    /\ cur = NoClient
    /\ curOp = ""
    /\ phase = "idle"
    /\ reqPath = EmptyStr
    /\ hops = 0
    /\ hopTarget = EmptyStr
    /\ wasRedirected = FALSE
    /\ final = NilResp
    /\ cause = ""
    /\ hookOwner = NoClient
    /\ hookFresh = FALSE
    /\ expandMsg = EmptyStr
    /\ expandArgs = << >>
    /\ expanded = NotExpanded

\* New(t) for every client, on a server nothing was dispatched to
New ==
    /\ t \in [Clients -> Testers]
    /\ method = [c \in Clients |-> "GET"]
    /\ url = [c \in Clients |-> PathRoot]
    /\ header = [c \in Clients |->
                    [NoHeaders EXCEPT !["Accept"] = <<ContentTypeApplicationJson>>,
                                      !["User-Agent"] = <<UserAgent>>]]
    /\ body = [c \in Clients |-> NilBody]
    /\ form = [c \in Clients |-> NoForm]
    /\ context = [c \in Clients |-> "background"]
    /\ expectedStatus = [c \in Clients |-> 0]
    /\ expectRedirectPath = [c \in Clients |-> EmptyStr]
    /\ err = [c \in Clients |-> NoErr]
    /\ reports = [c \in Clients |-> << >>]
    /\ goroutine = [c \in Clients |-> "running"]
    /\ built = [c \in Clients |-> NoReq]
    /\ resp = [c \in Clients |-> NoResp]
    /\ simple = [c \in Clients |-> NoSimple]
    /\ calls = 0
    /\ lastOp = <<NoClient, "", "">>
    /\ cur = NoClient
    /\ curOp = ""
    /\ phase = "idle"
    /\ reqPath = EmptyStr
    /\ hops = 0
    /\ hopTarget = EmptyStr
    /\ wasRedirected = FALSE
    /\ final = NilResp
    /\ cause = ""
    /\ hookOwner = NoClient
    /\ hookFresh = FALSE

\* the clients of a test, before it expands any message
Init ==
    /\ New
    /\ expandMsg = EmptyStr
    /\ expandArgs = << >>
    /\ expanded = NotExpanded

\* the server and the transport; limit bounds the redirects followed
Exchange(limit) ==
    \/ \E s \in Statuses, broken \in BOOLEAN :
          /\ broken => curOp = "DoSimple"
          /\ ServerRespond(s, broken)
    \/ \E p \in HopTargets : ServerRedirect(p, limit)
    \/ TransportFailure
    \/ CheckRedirect
    \/ DoReturn

\* status codes given to ExpectedStatusCode
ExpectedCodes == {200, 303, 404}

\* dispatches of two clients on one server
Next ==
    \/ /\ calls < MaxCalls
       /\ \E c \in Clients :
             \/ \E s \in ExpectedCodes : ExpectedStatusCode(c, s)
             \/ ExpectRedirectTo(c, PathRedirected)
             \/ Do(c)
             \/ DoSimple(c)
    \/ Exchange(MaxHops)

Spec == Init /\ [][Next]_vars

\* one client on a server that may keep redirecting
InitLoop ==
    /\ Init
    /\ t["c2"] = "Fake"

NextLoop ==
    \/ /\ calls < MaxCalls
       /\ \/ ExpectRedirectTo("c1", PathRedirected)
          \/ \E s \in ExpectedCodes : ExpectedStatusCode("c1", s)
          \/ DoSimple("c1")
    \/ Exchange(LoopHops)

SpecLoop == InitLoop /\ [][NextLoop]_vars

\* arguments of the mutators
MethodArgs == {"POST", "", "BAD METHOD"}
URLArgs == {<<PathStart, << >> >>, <<<<"s">>, << >> >>,
            <<<<"/", "%s">>, <<<<"s">>>> >>, <<<<"/", "%s">>, << >> >>}
Verbs == {"GET", "POST", "PUT", "PATCH", "DELETE"}
HeaderArgs == {<<"x-custom", <<"v1">>, << >> >>,
               <<"X-Custom", <<"v2">>, <<<<"v3">>>> >>,
               <<"content-type", <<"text/plain">>, << >> >>}
FormArgs == {<< >>, <<"a", "1">>, <<"a", "1", "b">>, <<"b", "x y", "a", "2">>}
BodyArgs == {<<"p">>}
PayloadArgs == {"nil", "chan", "obj"}
ContextArgs == {"canceled", "nil"}

\* every operation of one client
NextBuilder ==
    \/ /\ calls < MaxCalls
       /\ \E c \in {"c1"} :
             \/ \E ctx \in ContextArgs : Context(c, ctx)
             \/ \E s \in ExpectedCodes : ExpectedStatusCode(c, s)
             \/ ExpectRedirectTo(c, PathRedirected)
             \/ \E m \in MethodArgs : Method(c, m)
             \/ \E u \in URLArgs : URL(c, u[1], u[2])
             \/ \E v \in Verbs : Verb(c, v, PathStart, << >>)
             \/ \E h \in HeaderArgs : Header(c, h[1], h[2], h[3])
             \/ \E a \in FormArgs : FormData(c, a)
             \/ ClearHeaders(c)
             \/ \E b \in BodyArgs : BodyBytes(c, b)
             \/ \E p \in PayloadArgs : BodyJSON(c, p)
             \/ BuildRequest(c)
             \/ Do(c)
             \/ DoSimple(c)
    \/ Exchange(MaxHops)

SpecBuilder == InitLoop /\ [][NextBuilder]_vars

\* status codes around the range ExpectedStatusCode refuses
EdgeCodes == {299, 300, 303, 399, 400, 404}

\* one client that states the status it expects and dispatches
NextStatus ==
    \/ /\ calls < MaxCalls
       /\ \/ \E s \in EdgeCodes : ExpectedStatusCode("c1", s)
          \/ BuildRequest("c1")
          \/ Do("c1")
          \/ DoSimple("c1")
    \/ Exchange(MaxHops)

SpecStatus == InitLoop /\ [][NextStatus]_vars

\* Content-Type given to Header with an empty value
FormHeaderArgs == HeaderArgs \cup {<<"Content-Type", << >>, << >> >>}

\* one client that fills headers, form and body and builds the request
NextForm ==
    /\ calls < MaxFormCalls
    /\ \/ \E h \in FormHeaderArgs : Header("c1", h[1], h[2], h[3])
       \/ \E a \in FormArgs : FormData("c1", a)
       \/ ClearHeaders("c1")
       \/ \E b \in BodyArgs : BodyBytes("c1", b)
       \/ \E p \in PayloadArgs : BodyJSON("c1", p)
       \/ \E m \in MethodArgs : Method("c1", m)
       \/ BuildRequest("c1")

SpecForm == InitLoop /\ [][NextForm]_vars

\* URL arguments: the empty path, paths with and without a leading "/",
\* formats with enough, too few and too many arguments
PathArgs == URLArgs \cup {<<EmptyStr, << >> >>, <<PathRoot, << >> >>,
                          <<<<"s", "/">>, << >> >>,
                          <<<<"/", "%s">>, <<<<"s">>, <<"o">>>> >>}

\* one client that sets method and path and builds the request
NextURL ==
    /\ calls < MaxFormCalls
    /\ \/ \E m \in MethodArgs : Method("c1", m)
       \/ \E u \in PathArgs : URL("c1", u[1], u[2])
       \/ \E v \in Verbs, u \in PathArgs : Verb("c1", v, u[1], u[2])
       \/ BuildRequest("c1")

SpecURL == InitLoop /\ [][NextURL]_vars

\* one client that dispatches with DoSimple and decodes what it returned
NextSimple ==
    \/ /\ calls < MaxCalls
       /\ \/ DoSimple("c1")
          \/ \E target \in DecodeTargets : SimpleBodyJSON("c1", target)
    \/ Exchange(MaxHops)

SpecSimple == InitLoop /\ [][NextSimple]_vars

\* the maps given to expandStr: "k" renders as a token, "1" is a number
AnyValues == (<<"k">> :> Str(<<"$", "1">>)) @@ (<<"1">> :> IntArg(10))
StringValues == (<<"k">> :> Str(<<"v">>))

\* the argument lists given to expandStr: none, one map[string]any, one
\* map[string]string, one string that reads as a token, an int and a
\* Stringer, a map[string]any followed by an int
ArgLists == {<< >>,
             <<MapAny(AnyValues)>>,
             <<MapString(StringValues)>>,
             <<Str(<<"$", "0">>)>>,
             <<IntArg(10), Stringer(<<"has-stringer">>)>>,
             <<MapAny(AnyValues), IntArg(10)>>}

\* the messages of at most MaxMsgLen characters
Messages == UNION {[1..n -> Alphabet] : n \in 0..MaxMsgLen}

\* a test about to expand one message with one argument list
InitExpand ==
    /\ New
    /\ t = [c \in Clients |-> "Fake"]
    /\ expandMsg \in Messages
    /\ expandArgs \in ArgLists
    /\ expanded = NotExpanded

NextExpand == ExpandStr

SpecExpand == InitExpand /\ [][NextExpand]_vars

\* ================================================================ claims
\* the step in which Do continues after client.Do returned a response:
\* no transport error, and the dispatch gets past the missing-redirect check
AtStatusCheck ==
    /\ phase = "responded"
    /\ phase' = "idle"
    /\ cause = ""
    /\ ~(expectRedirectPath[cur] # EmptyStr /\ ~wasRedirected)

\* the reports DoSimple and the self-test add after Do's checks passed
AfterChecks ==
    (IF SelfTest(cur) THEN <<Msg(FmtAssertionNotMet, << >>, << >>, "")>> ELSE << >>)
    \o (IF curOp = "DoSimple" /\ final.broken
        THEN <<Msg(FmtNoError, << >>, << >>, "unexpected EOF")>> ELSE << >>)

DoReturnsNil == lastOp'[3] = "returned" => resp'[cur] = NilResp

C2_ExactStatus ==
    [][(AtStatusCheck /\ expectedStatus[cur] > 0) =>
          /\ ~(expectedStatus[cur] >= 300 /\ expectedStatus[cur] <= 399)
          /\ final.status = expectedStatus[cur] =>
                /\ resp'[cur] = final
                /\ reports'[cur] = reports[cur] \o AfterChecks
          /\ final.status # expectedStatus[cur] =>
                /\ reports'[cur] = Append(reports[cur],
                      Msg(FmtExpectedStatus, <<expectedStatus[cur], final.status>>,
                          << >>, ""))
                /\ DoReturnsNil]_vars

\* C2 witness: expecting 404, the client got 404 and its Do returned the
\* response; its next Do got 200 and reported (404, 200)
C2_Witness ==
    /\ expectedStatus["c1"] = 404
    /\ resp["c1"] = Resp(404, PathRoot, FALSE)
    /\ reports["c1"] = <<Msg(FmtExpectedStatus, <<404, 200>>, << >>, "")>>

\* C3: with no expected status only 2xx is success: every final status
\* outside 200..299 fails the dispatch (Do does not return the response).
C3_Only2xxSucceeds ==
    [][(AtStatusCheck /\ expectedStatus[cur] = 0
        /\ ~(final.status >= 200 /\ final.status <= 299)) =>
          /\ resp'[cur] # final
          /\ reports'[cur] # reports[cur]]_vars

\* the mutators of the builder, by the name the call is recorded under
Mutators == {"Method", "URL", "GET", "POST", "PUT", "PATCH", "DELETE", "Header",
             "ClearHeaders", "BodyBytes", "BodyJSON", "FormData", "Context",
             "ExpectedStatusCode", "ExpectRedirectTo"}

\* the step is the start of a call of client c
CallOf(c) == calls' = calls + 1 /\ lastOp'[1] = c

\* C4: once err is non-nil it is never nil again, and from then on every
\* BuildRequest returns nil and every Do/DoSimple returns nil/the empty
\* SimpleResponse without a request being sent (no dispatch starts).
C4_StickyError ==
    [][\A c \in Clients :
          err[c] # NoErr =>
             /\ err'[c] # NoErr
             /\ (CallOf(c) /\ lastOp'[2] = "BuildRequest") => built'[c] = NilReq
             /\ (CallOf(c) /\ lastOp'[2] \in {"Do", "DoSimple"}) =>
                   /\ resp'[c] = NilResp
                   /\ lastOp'[2] = "DoSimple" => simple'[c] = EmptySimpleResponse
             /\ cur = NoClient => cur' # c]_vars

\* C4 witness: after the misuse of ExpectedStatusCode was reported to a
\* FakeTester, BuildRequest returned nil and DoSimple the empty response
C4_Witness ==
    /\ reports["c1"] = <<Msg(FmtMisuse, <<303>>, << >>, "")>>
    /\ err["c1"] # NoErr
    /\ built["c1"] = NilReq
    /\ lastOp = <<"c1", "DoSimple", "returned">>
    /\ simple["c1"] = EmptySimpleResponse
    /\ resp["c1"] = NilResp

\* C5: after err is set every later mutator is a no-op: it leaves method,
\* path, headers, body, form, context and both expectations unchanged, and
\* err keeps the first error.
C5_NoOpAfterError ==
    [][\A c \in Clients :
          (err[c] # NoErr /\ CallOf(c) /\ lastOp'[2] \in Mutators) =>
             /\ method'[c] = method[c]
             /\ url'[c] = url[c]
             /\ header'[c] = header[c]
             /\ body'[c] = body[c]
             /\ form'[c] = form[c]
             /\ context'[c] = context[c]
             /\ expectedStatus'[c] = expectedStatus[c]
             /\ expectRedirectPath'[c] = expectRedirectPath[c]
             /\ err'[c] = err[c]]_vars

\* C6: with ExpectRedirectTo(p), when the server answers with one redirect
\* to p and the target with a status below 400, the dispatch succeeds with
\* nothing reported by Do's checks and DoSimple returns the status, headers
\* and body of the post-redirect response.
C6_ExpectedRedirectSucceeds ==
    [][(/\ phase = "responded"
        /\ phase' = "idle"
        /\ curOp = "DoSimple"
        /\ ~final.broken
        /\ expectRedirectPath[cur] # EmptyStr
        /\ hops = 1
        /\ final.path = expectRedirectPath[cur]
        /\ final.status < 400
        /\ expectedStatus[cur] = 0) =>
          /\ resp'[cur] = final
          /\ simple'[cur] = ReadSimple(cur, final)
          /\ reports'[cur] = reports[cur] \o AfterChecks]_vars

\* C7: with ExpectRedirectTo(p), a hop whose target differs from p fails
\* the dispatch with the redirect-mismatch failure naming p and the actual
\* path, and the hop is not followed.
C7_MismatchedHopFails ==
    [][(/\ phase = "hop"
        /\ expectRedirectPath[cur] # EmptyStr
        /\ hopTarget # expectRedirectPath[cur]) =>
          /\ phase' # "sent"
          /\ reports'[cur] = Append(reports[cur],
                Msg(FmtRedirectMismatch, << >>,
                    <<expectRedirectPath[cur], hopTarget>>, ""))]_vars

\* C8: with ExpectRedirectTo(p), p non-empty, when the exchange ends with
\* a response and no redirect hop, Errorf gets "expected to redirect path
\* '%s' but no redirection happened" with p and Do returns nil, whatever
\* the status.
C8_MissingRedirectFails ==
    [][(/\ phase = "responded"
        /\ phase' = "idle"
        /\ expectRedirectPath[cur] # EmptyStr
        /\ hops = 0) =>
          /\ reports'[cur] = Append(reports[cur],
                Msg(FmtRedirectMissing, << >>, <<expectRedirectPath[cur]>>, ""))
          /\ DoReturnsNil]_vars

\* C8 witness: the first dispatch on the server, expecting a redirect to
\* /r, got 200 without a hop; the failure was reported and Do returned nil
C8_Witness ==
    /\ calls = 2
    /\ expectRedirectPath["c1"] = PathRedirected
    /\ lastOp = <<"c1", "Do", "returned">>
    /\ reports["c1"] = <<Msg(FmtRedirectMissing, << >>, <<PathRedirected>>, "")>>
    /\ resp["c1"] = NilResp

\* the hop limit the tests name (Client::MaxRedirects)
MaxRedirects == 10

\* C9: a dispatch never follows more than 10 redirect hops.
C9_AtMostTenHops == hops <= MaxRedirects

\* C10: without ExpectRedirectTo (empty expected path) a redirect is
\* followed and nothing is reported.
C10_UnexpectedRedirectFollowed ==
    [][(phase = "hop" /\ expectRedirectPath[cur] = EmptyStr) =>
          /\ phase' = "sent"
          /\ reqPath' = hopTarget
          /\ reports' = reports]_vars

\* C11: when client.Do returns an error (a cancelled context, a failure of
\* the connection, a hop the redirect hook rejected), Errorf gets "Expected
\* no error, got %v" with that error and nothing else is reported: neither
\* the missing-redirect check nor the status check runs.  err is that
\* failure, Do returns nil and DoSimple the empty SimpleResponse.
C11_TransportErrorFails ==
    [][(phase = "error" /\ phase' = "idle") =>
          /\ reports'[cur] = Append(reports[cur], Msg(FmtNoError, << >>, << >>, cause))
          /\ \A c \in Clients \ {cur} : reports'[c] = reports[c]
          /\ err'[cur] = Msg(FmtNoError, << >>, << >>, cause)
          /\ DoReturnsNil
          /\ (lastOp'[3] = "returned" /\ curOp = "DoSimple") =>
                simple'[cur] = EmptySimpleResponse
          /\ cur' = NoClient]_vars

\* C11 witness: expecting a redirect, DoSimple ran with a cancelled context:
\* the only report is the transport error and the result is empty
C11_Witness ==
    /\ context["c1"] = "canceled"
    /\ expectRedirectPath["c1"] = PathRedirected
    /\ lastOp = <<"c1", "DoSimple", "returned">>
    /\ reports["c1"] = <<Msg(FmtNoError, << >>, << >>, "context canceled")>>
    /\ err["c1"] = Msg(FmtNoError, << >>, << >>, "context canceled")
    /\ resp["c1"] = NilResp
    /\ simple["c1"] = EmptySimpleResponse

\* a report of client c is the failure msg
Reported(c, msg) == \E i \in DOMAIN reports[c] : reports[c][i] = msg

\* C12: BodyJSON(nil) reports "payload to send is nil" and nothing else,
\* leaves the body (and the rest of the builder) unchanged and sets err
\* (ErrNilBodyJSON when FailNow returns); a BuildRequest called after that
\* report returns nil.
C12_NilPayloadRejected ==
    [][\A c \in Clients :
          /\ (lastOp'[2] = "BodyJSON" /\ BodyJSON(c, "nil")) =>
                /\ reports'[c] = Append(reports[c], Msg(FmtNilPayload, << >>, << >>, ""))
                /\ body'[c] = body[c]
                /\ form'[c] = form[c] /\ header'[c] = header[c]
                /\ err'[c] # NoErr
                /\ ~Halts(c) => err'[c] = ErrNilBodyJSON
          /\ (/\ CallOf(c) /\ lastOp'[2] = "BuildRequest"
              /\ Reported(c, Msg(FmtNilPayload, << >>, << >>, ""))) =>
                built'[c] = NilReq]_vars

\* C12 witness: a body was set, BodyJSON(nil) reported the nil payload and
\* kept that body, and BuildRequest then returned nil
C12_Witness ==
    /\ body["c1"] = Reader(<<"p">>)
    /\ reports["c1"] = <<Msg(FmtNilPayload, << >>, << >>, "")>>
    /\ err["c1"] = ErrNilBodyJSON
    /\ lastOp = <<"c1", "BuildRequest", "returned">>
    /\ built["c1"] = NilReq

\* C13: ExpectedStatusCode(code) with 300 <= code <= 399 reports "misuse of
\* ExpectedStatusCode(%d), use ExpectRedirectTo instead" with the code,
\* keeps the expected status it had and sets err; no builder ever holds an
\* expected status in 300..399; Do or DoSimple called right after the
\* misuse returns nil/empty, sends no request and reports nothing.
C13_RedirectStatusIsMisuse ==
    [][\A c \in Clients :
          /\ \A code \in {s \in EdgeCodes : s >= 300 /\ s <= 399} :
                (lastOp'[2] = "ExpectedStatusCode" /\ ExpectedStatusCode(c, code)) =>
                   /\ reports'[c] = Append(reports[c], Msg(FmtMisuse, <<code>>, << >>, ""))
                   /\ expectedStatus'[c] = expectedStatus[c]
                   /\ err'[c] = Msg(FmtMisuse, <<code>>, << >>, "")
          /\ ~(expectedStatus'[c] >= 300 /\ expectedStatus'[c] <= 399)
          /\ (/\ lastOp = <<c, "ExpectedStatusCode", "returned">>
              /\ err[c].format = FmtMisuse
              /\ CallOf(c) /\ lastOp'[2] \in {"Do", "DoSimple"}) =>
                /\ reports' = reports
                /\ cur' = NoClient /\ phase' = "idle"
                /\ resp'[c] = NilResp
                /\ lastOp'[2] = "DoSimple" => simple'[c] = EmptySimpleResponse]_vars

\* C13 witness: expecting 404, ExpectedStatusCode(303) reported the misuse
\* and kept 404; the Do that followed returned nil with no further report
C13_Witness ==
    /\ expectedStatus["c1"] = 404
    /\ reports["c1"] = <<Msg(FmtMisuse, <<303>>, << >>, "")>>
    /\ err["c1"] = Msg(FmtMisuse, <<303>>, << >>, "")
    /\ lastOp = <<"c1", "Do", "returned">>
    /\ resp["c1"] = NilResp

\* C14: FormData with an odd number of arguments reports the odd-count
\* failure once and sets err, adds no field of that call to the form, does
\* not read past the end of its arguments, and, when FailNow returns,
\* returns the builder.
C14_OddFormDataRejected ==
    [][\A c \in Clients : \A a \in {x \in FormArgs : Len(x) % 2 # 0} :
          (lastOp'[2] = "FormData" /\ FormData(c, a)) =>
             /\ reports'[c] = Append(reports[c], Msg(FmtOddForm, <<Len(a)>>, << >>, ""))
             /\ err'[c] # NoErr
             /\ form'[c] = form[c]
             /\ goroutine'[c] # "panicked"
             /\ ~Halts(c) => lastOp'[3] = "returned"]_vars

\* the values args gives for field name n, in the order of args
ValuesOf(args, n) ==
    LET pairs == [i \in 1..(Len(args) \div 2) |-> <<args[2 * i - 1], args[2 * i]>>]
        mine == SelectSeq(pairs, LAMBDA p : p[1] = n)
    IN  [i \in 1..Len(mine) |-> mine[i][2]]

\* C15: a FormData call with an even number of arguments appends, for every
\* field name, the values the call gives for it to the values the form
\* already holds (nothing is overwritten), and sets the body to the
\* URL-encoding of the whole form as it is after the call.
C15_FormDataAdditive ==
    [][\A c \in Clients : \A a \in {x \in FormArgs : Len(x) % 2 = 0} :
          (lastOp'[2] = "FormData" /\ FormData(c, a)) =>
             /\ \A n \in DOMAIN form[c] : form'[c][n] = form[c][n] \o ValuesOf(a, n)
             /\ body'[c] = Reader(Encode(form'[c]))
             /\ reports' = reports /\ err' = err]_vars

\* C15 witness: FormData("a", "1") and then FormData("b", "x y", "a", "2")
\* left a = [1, 2], b = [x y] and the body a=1&a=2&b=x+y
C15_Witness ==
    /\ lastOp = <<"c1", "FormData", "returned">>
    /\ form["c1"] = [a |-> <<"1", "2">>, b |-> <<"x y">>]
    /\ body["c1"] = Reader(<<"a", "=", "1", "&", "a", "=", "2", "&", "b", "=", "x+y">>)

\* the step is a BuildRequest of client c that returns a request
Builds(c) ==
    /\ CallOf(c)
    /\ lastOp' = <<c, "BuildRequest", "returned">>
    /\ ~built'[c].isNil

\* the step is a Do or DoSimple of client c that sends its request
Sends(c) ==
    /\ CallOf(c)
    /\ lastOp'[2] \in {"Do", "DoSimple"}
    /\ lastOp'[3] = "running"

\* C16: a request built while the form holds at least one field carries
\* the single Content-Type application/x-www-form-urlencoded, whatever
\* Header put there before or after FormData and whether or not ClearHeaders
\* was called; the same holds for the request Do sends.
C16_FormForcesContentType ==
    [][\A c \in Clients :
          FormLen(form[c]) > 0 =>
             /\ Builds(c) => RequestHeader(c)'["Content-Type"] = <<ContentTypeForm>>
             /\ Sends(c) => header'[c]["Content-Type"] = <<ContentTypeForm>>]_vars

\* C16 witness: after ClearHeaders and FormData("a", "1") among four calls,
\* the request built carries the form type as its only header
C16_Witness ==
    /\ calls = 4
    /\ lastOp = <<"c1", "BuildRequest", "returned">>
    /\ form["c1"]["a"] = <<"1">>
    /\ ~built["c1"].isNil
    /\ RequestHeader("c1") = [NoHeaders EXCEPT !["Content-Type"] = <<ContentTypeForm>>]

\* C17: while the form holds at least one field, the body of the request
\* that is built or sent is the URL-encoded form, whether BodyBytes,
\* BodyString or BodyJSON was called before FormData or after it.
C17_FormBodyWins ==
    [][\A c \in Clients :
          FormLen(form[c]) > 0 =>
             /\ Builds(c) => built'[c].body = Reader(Encode(form[c]))
             /\ Sends(c) => body[c] = Reader(Encode(form[c]))]_vars

C19_FreshBuilderDefaults ==
    \A c \in Clients :
       (calls = 1 /\ lastOp = <<c, "BuildRequest", "returned">>) =>
          /\ ~built[c].isNil
          /\ built[c].method = "GET"
          /\ built[c].path = <<"/">>
          /\ built[c].body = NilBody
          /\ \A n \in HeaderNames :
                RequestHeader(c)[n] = CASE n = "Accept" -> <<<<"application/json">>>>
                                        [] n = "User-Agent" -> <<<<"test-http-request">>>>
                                        [] OTHER -> << >>

\* C19 witness: BuildRequest was the first call on the builder and
\* returned a request
C19_Witness ==
    /\ calls = 1
    /\ lastOp = <<"c1", "BuildRequest", "returned">>
    /\ built["c1"].method = "GET"
    /\ RequestHeader("c1")["Content-Type"] = << >>

C21_HeaderSetsThenAdds ==
    [][\A c \in Clients : \A h \in FormHeaderArgs :
          (lastOp'[2] = "Header" /\ Header(c, h[1], h[2], h[3])) =>
             \A n \in HeaderNames :
                header'[c][n] = IF n = CanonicalHeaderKey(h[1])
                                THEN <<h[2]>> \o h[3]
                                ELSE header[c][n]]_vars

\* C21 witness: after Header("X-Custom", "v2", "v3") the call
\* Header("x-custom", "v1") left v1 alone under that name, next to the
\* Content-Type another Header call set and the seeded headers
C21_Witness ==
    /\ calls = 3
    /\ lastOp = <<"c1", "Header", "returned">>
    /\ header["c1"] =
          [NoHeaders EXCEPT !["Accept"] = <<ContentTypeApplicationJson>>,
                            !["User-Agent"] = <<UserAgent>>,
                            !["Content-Type"] = <<<<"text/plain">>>>,
                            !["X-Custom"] = <<<<"v1">>>>]

\* the builder fields other than method and path, and what was reported
RestOfBuilder == <<t, header, body, form, context, expectedStatus,
                   expectRedirectPath, err, reports, goroutine>>

\* C22: Get/Post/Put/Patch/Delete(path, args) changes the builder as
\* Method(verb) followed by URL(path, args) does: Method replaces the method
\* and nothing else, URL replaces the path by the formatted path and
\* nothing else, and the shorthand replaces both by the same values and
\* nothing else; each setter replaces what earlier setters stored.
C22_VerbIsMethodThenURL ==
    [][\A c \in Clients :
          /\ \A m \in MethodArgs :
                (lastOp'[2] = "Method" /\ Method(c, m)) =>
                   /\ method' = [method EXCEPT ![c] = m]
                   /\ UNCHANGED <<url, RestOfBuilder>>
          /\ \A u \in PathArgs :
                (lastOp'[2] = "URL" /\ URL(c, u[1], u[2])) =>
                   /\ url' = [url EXCEPT ![c] = Sprintf(u[1], u[2])]
                   /\ UNCHANGED <<method, RestOfBuilder>>
          /\ \A v \in Verbs : \A u \in PathArgs :
                (lastOp'[2] = v /\ Verb(c, v, u[1], u[2])) =>
                   /\ method' = [method EXCEPT ![c] = v]
                   /\ url' = [url EXCEPT ![c] = Sprintf(u[1], u[2])]
                   /\ UNCHANGED RestOfBuilder]_vars

\* C22 witness: after Method("POST") and URL("s"), Put("/%s", "s") left
\* the method PUT and the path /s
C22_Witness ==
    /\ calls = 3
    /\ lastOp = <<"c1", "PUT", "returned">>
    /\ method["c1"] = "PUT"
    /\ url["c1"] = <<"/", "s">>
    /\ err["c1"] = NoErr

\* the bases joinPath is called with: "" by BuildRequest, server.URL by Do
JoinBases == {EmptyStr, ServerURL}

DoSimpleReturns(c) ==
    /\ lastOp' = <<c, "DoSimple", "returned">>
    /\ CallOf(c) \/ cur = c

\* C24: a DoSimple that returns after its Do returned nil or after the read
\* of the body failed returns the empty SimpleResponse (status 0, empty
\* body, no headers), and the failure was reported before: in this call,
\* or earlier when err was set; a DoSimple whose Do returned the response
\* and whose read succeeded returns the status, the headers and the whole
\* body of the final response.
C24_DoSimpleResult ==
    [][\A c \in Clients :
          DoSimpleReturns(c) =>
             /\ (resp'[c].isNil \/ (cur = c /\ final.broken)) =>
                   /\ simple'[c] = [Status |-> 0, Body |-> EmptyStr,
                                    Header |-> EmptyStr, t |-> "nil"]
                   /\ \/ reports'[c] # reports[c]
                      \/ CallOf(c) /\ err[c] # NoErr /\ reports[c] # << >>
             /\ (~resp'[c].isNil /\ ~(cur = c /\ final.broken)) =>
                   /\ resp'[c] = final
                   /\ simple'[c] = [Status |-> final.status,
                                    Body |-> BodyOf(final.path),
                                    Header |-> HeaderOf(final.path),
                                    t |-> t[c]]]_vars

\* C24 witness: the DoSimple of one client got 200 and returned status,
\* headers and body; that of the other got 404, reported it and returned
\* the empty SimpleResponse
C24_Witness ==
    /\ t["c1"] = "T"
    /\ simple["c1"] = SimpleResponse(200, BodyOf(PathRoot), HeaderOf(PathRoot), "T")
    /\ reports["c1"] = << >>
    /\ lastOp = <<"c2", "DoSimple", "returned">>
    /\ simple["c2"] = EmptySimpleResponse
    /\ reports["c2"] = <<Msg(FmtExpectedSuccess, <<404>>, << >>, "")>>

\* Do got a response and it passes the missing-redirect and status checks
PassesChecks ==
    /\ AtStatusCheck
    /\ \/ expectedStatus[cur] = 0 /\ final.status < 400
       \/ expectedStatus[cur] > 0 /\ expectedStatus[cur] = final.status

\* C25: when a dispatch passes the transport, redirect and status checks,
\* a FakeTester gets the failure "ASSERTION NOT MET" from Do (err is set,
\* the response is still returned), and any other TestingT gets nothing
\* from Do; the only other report can be DoSimple's failed read.
C25_SelfTestEscalates ==
    [][PassesChecks =>
          /\ resp'[cur] = final
          /\ t[cur] = "Fake" =>
                /\ Len(reports'[cur]) > Len(reports[cur])
                /\ reports'[cur][Len(reports[cur]) + 1] =
                      Msg(FmtAssertionNotMet, << >>, << >>, "")
                /\ err'[cur] # NoErr
                /\ ~(curOp = "DoSimple" /\ final.broken) =>
                      Len(reports'[cur]) = Len(reports[cur]) + 1
          /\ t[cur] # "Fake" =>
                /\ ~(curOp = "DoSimple" /\ final.broken) => reports' = reports
                /\ \A i \in DOMAIN reports'[cur] :
                      reports'[cur][i].format # FmtAssertionNotMet]_vars

\* C25 witness: both clients' Do got 200; the *testing.T heard nothing,
\* the FakeTester was told ASSERTION NOT MET, and both got the response
C25_Witness ==
    /\ t = [c \in Clients |-> IF c = "c1" THEN "T" ELSE "Fake"]
    /\ lastOp = <<"c2", "Do", "returned">>
    /\ resp["c1"] = Resp(200, PathRoot, FALSE)
    /\ reports["c1"] = << >>
    /\ resp["c2"] = Resp(200, PathRoot, FALSE)
    /\ reports["c2"] = <<Msg(FmtAssertionNotMet, << >>, << >>, "")>>

\* C26: BuildRequest leaves method, path, headers, body, form, context
\* and both expectations of the builder as they were, and a BuildRequest
\* that directly follows another returns a request with the same method,
\* path and headers.
C26_BuildRequestPure ==
    [][\A c \in Clients :
          (CallOf(c) /\ lastOp'[2] = "BuildRequest") =>
             /\ method'[c] = method[c]
             /\ url'[c] = url[c]
             /\ header'[c] = header[c]
             /\ body'[c] = body[c]
             /\ form'[c] = form[c]
             /\ context'[c] = context[c]
             /\ expectedStatus'[c] = expectedStatus[c]
             /\ expectRedirectPath'[c] = expectRedirectPath[c]
             /\ (lastOp = <<c, "BuildRequest", "returned">> /\ ~built[c].isNil) =>
                   /\ ~built'[c].isNil
                   /\ built'[c].method = built[c].method
                   /\ built'[c].path = built[c].path
                   /\ RequestHeader(c)' = RequestHeader(c)]_vars

\* C27: BodyJSON(target) on a SimpleResponse DoSimple returned, the empty
\* one included, whose body cannot be decoded into target calls Errorf
\* with "unmarshal payload failed: %v" and then FailNow, and fails in no
\* other way.
C27_BodyJSONReportsFailure ==
    [][\A c \in Clients : \A target \in DecodeTargets :
          (/\ lastOp'[2] = "SimpleResponse.BodyJSON"
           /\ SimpleBodyJSON(c, target)
           /\ simple[c].Body = EmptyStr \/ target = "mismatch") =>
             /\ Len(reports'[c]) = Len(reports[c]) + 1
             /\ reports'[c][Len(reports'[c])].format = FmtUnmarshal
             /\ goroutine'[c] # "panicked"]_vars

\* position p of str starts a $token: a "$" with a key character after it
TokenAt(str, p) == str[p] = "$" /\ p < Len(str) /\ str[p + 1] \in KeyChars

\* the name of the token that starts at p: the key characters up to the
\* first character that is none
NameAt(str, p) ==
    LET last == CHOOSE q \in (p + 1)..Len(str) :
                    /\ \A r \in (p + 1)..q : str[r] \in KeyChars
                    /\ q = Len(str) \/ str[q + 1] \notin KeyChars
    IN SubSeq(str, p + 1, last)

\* position p of str lies in the name of a token
InName(str, p) ==
    \E q \in 1..(p - 1) :
        /\ TokenAt(str, q)
        /\ \A r \in (q + 1)..p : str[r] \in KeyChars

RECURSIVE Concat(_)
Concat(pieces) ==
    IF pieces = << >> THEN << >> ELSE Head(pieces) \o Concat(Tail(pieces))

\* what each position of expandMsg contributes to the result: a token its
\* rendering, at the "$"; any other character itself
Contribution(p) ==
    IF TokenAt(expandMsg, p) THEN repl(NameAt(expandMsg, p), expandArgs)
    ELSE IF InName(expandMsg, p) THEN << >>
    ELSE <<expandMsg[p]>>

\* C28: what expandStr returns is, position by position and in order, the
\* text outside the $tokens as it stands and the rendering of each token
\* once, the rendering itself never expanded; a message without a $token
\* comes back unchanged whatever the arguments, the empty message as the
\* empty string.
C28_ExpandStrKeepsText ==
    expanded # NotExpanded =>
        /\ expanded = Concat([p \in 1..Len(expandMsg) |-> Contribution(p)])
        /\ (\A p \in 1..Len(expandMsg) : ~TokenAt(expandMsg, p)) =>
              expanded = expandMsg
        /\ expandMsg = EmptyStr => expanded = EmptyStr

\* C28 witness: "$k $" expanded with a map whose "k" is the string "$1":
\* the value stands where the token was and was not expanded again, " $"
\* follows it
C28_Witness ==
    /\ expandMsg = <<"$", "k", " ", "$">>
    /\ expandArgs = <<MapAny(AnyValues)>>
    /\ expanded = <<"$", "1", " ", "$">>

\* expandMsg is one $token and nothing else, and expandStr has returned
OneTokenExpanded ==
    /\ expanded # NotExpanded
    /\ Len(expandMsg) >= 2
    /\ expandMsg[1] = "$"
    /\ \A p \in 2..Len(expandMsg) : expandMsg[p] \in KeyChars

\* the name of that token
TokenName == Tail(expandMsg)

\* a name that is a decimal index: digits only, and few enough for an int
DecimalIndex(name) == \A p \in 1..Len(name) : name[p] \in {"0", "1"}

\* a name that is no number: some character of it is no digit
NonNumeric(name) == \E p \in 1..Len(name) : name[p] \notin {"0", "1", Nines}

C30_StringKeyedMap ==
    (/\ OneTokenExpanded
     /\ NonNumeric(TokenName)
     /\ Len(expandArgs) = 1
     /\ expandArgs[1].kind \in {"map[string]any", "map[string]string"}) =>
        IF TokenName \in DOMAIN expandArgs[1].m
        THEN expanded = Format(expandArgs[1].m[TokenName])
        ELSE expanded = <<"[no_key:$">> \o TokenName \o <<"]">>

\* C30 amended: with exactly one argument of type map[string]any, every
\* non-numeric token $name renders the default string form of the map's
\* value for name if the key is present, and the marker "[no_key:$name]"
\* if it is absent.
C30_MapAnyLookup ==
    (/\ OneTokenExpanded
     /\ NonNumeric(TokenName)
     /\ Len(expandArgs) = 1
     /\ expandArgs[1].kind = "map[string]any") =>
        IF TokenName \in DOMAIN expandArgs[1].m
        THEN expanded = Format(expandArgs[1].m[TokenName])
        ELSE expanded = <<"[no_key:$">> \o TokenName \o <<"]">>

\* C30 witness: "$k" expanded with a map[string]any whose "k" is the
\* string "$1" rendered that string
C30_Witness ==
    /\ expandMsg = <<"$", "k">>
    /\ expandArgs = <<MapAny(AnyValues)>>
    /\ expanded = <<"$", "1">>

\* the step in which a Do or DoSimple of client c ends: in the call itself
\* when no request was built, else when the dispatch in progress ends
EndsDo(c) ==
    /\ lastOp'[1] = c
    /\ lastOp'[2] \in {"Do", "DoSimple"}
    /\ lastOp'[3] # "running"
    /\ \/ calls' = calls + 1
       \/ cur = c /\ cur' = NoClient

\* what the step reports on client c
NewReports(c) == SubSeq(reports'[c], Len(reports[c]) + 1, Len(reports'[c]))

\* C31: the checks of one Do run in a fixed order and the first that fails
\* is the one reported: a Do whose request is not built sends nothing and
\* reports the build error at most; a rejected hop or any other error of
\* client.Do is reported before the redirect and the status are looked at;
\* a missing redirect is reported before the status, so a Do that expected
\* a redirect, saw no hop and got a status >= 400 reports the missing
\* redirect and nothing about the status; the status is reported last.
C31_ChecksInOrder ==
    [][(lastOp'[2] \in {"Do", "DoSimple"} /\ EndsDo("c1")) =>
          LET c == "c1"
              new == NewReports(c)
          IN  IF calls' = calls + 1
              THEN /\ phase' = "idle"
                   /\ Len(new) <= 1
                   /\ \A i \in 1..Len(new) : new[i].format = FmtNoError
              ELSE IF phase = "hop"
              THEN new = <<Msg(FmtRedirectMismatch, << >>,
                               <<expectRedirectPath[c], hopTarget>>, "")>>
              ELSE IF cause # ""
              THEN new = <<Msg(FmtNoError, << >>, << >>, cause)>>
              ELSE IF expectRedirectPath[c] # EmptyStr /\ hops = 0
              THEN new = <<Msg(FmtRedirectMissing, << >>,
                               <<expectRedirectPath[c]>>, "")>>
              ELSE (/\ ~(expectRedirectPath[c] # EmptyStr /\ ~wasRedirected)
                    /\ \/ expectedStatus[c] = 0 /\ final.status >= 400
                       \/ expectedStatus[c] > 0 /\ expectedStatus[c] # final.status)
                   => /\ new # << >>
                      /\ new[1].format \in {FmtExpectedSuccess, FmtExpectedStatus}]_vars

\* C31 witness: a Do that expects a redirect to /r got 404 without a hop
\* and is about to run its checks
C31_Witness ==
    /\ cur = "c1"
    /\ phase = "responded"
    /\ expectRedirectPath["c1"] = PathRedirected
    /\ hops = 0
    /\ final.status = 404

\* C32: with ExpectRedirectTo(p), one hop to p is enough to record that the
\* redirect occurred, and the chain goes on: the hop is followed with
\* nothing reported, and what was recorded stays recorded while the same
\* dispatch follows further hops, so the matching hop need not be the last.
C32_OneMatchSuffices ==
    [][/\ (/\ phase = "hop"
           /\ expectRedirectPath[cur] # EmptyStr
           /\ hopTarget = expectRedirectPath[cur]) =>
              /\ wasRedirected'
              /\ phase' = "sent"
              /\ reqPath' = hopTarget
              /\ reports' = reports
       /\ (wasRedirected /\ cur' = cur) => wasRedirected']_vars

\* C33: every dispatch checks its hops against the expected redirect path
\* of its own builder and records the redirect for itself, whatever was
\* dispatched on the server before: the closure that answers a hop is the
\* one of the Do in progress, a hop to that builder's path is followed and
\* recorded, and any other hop is reported on that builder alone.
C33_OwnRedirectCheck ==
    [][phase = "hop" =>
          /\ hookOwner = cur
          /\ hookFresh
          /\ IF hopTarget = expectRedirectPath[cur]
             THEN /\ wasRedirected'
                  /\ reports' = reports
             ELSE /\ reports'[cur] # reports[cur]
                  /\ \A o \in Clients \ {cur} : reports'[o] = reports[o]]_vars

\* C34: no failure is silent.  After every step, a builder whose err is
\* set has had a failure reported through Errorf; every report is followed
\* at once by FailNow, so a *testing.T gets one report and its goroutine
\* stops there; and a Do that returns nil, or a DoSimple that returns the
\* empty SimpleResponse, returns with a failure reported on its builder.
C34_NoSilentFailure ==
    [][/\ \A c \in Clients : err'[c] # NoErr => reports'[c] # << >>
       /\ \A c \in Clients :
             (reports'[c] # reports[c] /\ Halts(c)) =>
                /\ Len(reports'[c]) = Len(reports[c]) + 1
                /\ \E r \in Clients :
                      goroutine[r] = "running" /\ goroutine'[r] = "halted"
       /\ \A c \in Clients :
             (/\ lastOp'[1] = c
              /\ lastOp'[2] \in {"Do", "DoSimple"}
              /\ lastOp'[3] = "returned"
              /\ lastOp # lastOp' \/ calls' # calls \/ cur' # cur
              /\ \/ resp'[c] = NilResp
                 \/ lastOp'[2] = "DoSimple" /\ simple'[c] = EmptySimpleResponse) =>
                reports'[c] # << >>]_vars

\* C34 witness: a builder reporting to a FakeTester was given a nil JSON
\* payload, which was reported; its Do then returned nil
C34_Witness ==
    /\ t["c1"] = "Fake"
    /\ reports["c1"] = <<Msg(FmtNilPayload, << >>, << >>, "")>>
    /\ err["c1"] = ErrNilBodyJSON
    /\ lastOp = <<"c1", "Do", "returned">>
    /\ resp["c1"] = NilResp

\* C35: one Do reports at most one failure, whatever the reporter's FailNow
\* does: the step that ends a Do reports one failure at most, and none
\* when a hop of this Do was rejected, which the redirect check reported
\* already as its one report.
C35_OneReportPerDo ==
    [][(lastOp'[2] = "Do" /\ EndsDo("c1")) =>
          /\ Len(NewReports("c1")) <= 1
          /\ (phase = "hop" \/ cause = "redirect rejected") =>
                reports'["c1"] =
                    IF phase = "hop"
                    THEN Append(reports["c1"],
                                Msg(FmtRedirectMismatch, << >>,
                                    <<expectRedirectPath["c1"], hopTarget>>, ""))
                    ELSE reports["c1"]]_vars

\* C36: every Do ends, also on a server that redirects to the expected
\* path for ever, because the hops of one dispatch are bounded: a dispatch
\* that has followed MaxRedirects hops follows no further hop but ends.
C36_DispatchEnds ==
    [][(phase = "hop" /\ hops >= MaxRedirects) =>
          /\ phase' # "sent"
          /\ hops' = hops]_vars

\* C37: a request BuildRequest returned does not change with the builder:
\* a later Header call on the builder, and a later BuildRequest, leave the
\* headers of the request that was handed out as they were.
C37_RequestIndependent ==
    [][\A c \in Clients :
          (CallOf(c) /\ ~built[c].isNil) =>
             /\ lastOp'[2] = "Header" => RequestHeader(c)' = RequestHeader(c)
             /\ lastOp'[2] = "BuildRequest" =>
                   (IF built[c].aliased THEN header'[c] ELSE built[c].header)
                       = RequestHeader(c)]_vars

\* C38: a token whose name parses as a non-negative integer is positional
\* whatever the arguments are: with a single map that has the name as a
\* key it still renders argument i or the bad-index marker, never the
\* map's value; and a non-numeric token renders "[no_key:$name]" whenever
\* the arguments are not exactly one string-keyed map.
C38_IndexBeforeKey ==
    OneTokenExpanded =>
        /\ DecimalIndex(TokenName) =>
              LET i == AtoiValue(TokenName)
                  positional == IF i < Len(expandArgs)
                                THEN Format(expandArgs[i + 1])
                                ELSE <<"[bad_index:$">> \o Decimal(i) \o <<"]">>
              IN  /\ expanded = positional
                  /\ (/\ Len(expandArgs) = 1
                      /\ TokenName \in DOMAIN expandArgs[1].m) =>
                        expanded # Format(expandArgs[1].m[TokenName])
        /\ (/\ NonNumeric(TokenName)
            /\ ~(/\ Len(expandArgs) = 1
                 /\ expandArgs[1].kind \in {"map[string]any", "map[string]string"})) =>
              expanded = <<"[no_key:$">> \o TokenName \o <<"]">>

\* C38 witness: "$1" expanded with one map that has the key "1" rendered
\* the bad-index marker, not the map's value
C38_Witness ==
    /\ expandMsg = <<"$", "1">>
    /\ expandArgs = <<MapAny(AnyValues)>>
    /\ expanded = <<"[bad_index:$", "1", "]">>

====
